---- MODULE Spec2Model ----
(***************************************************************************)
(* Workflow execution engine of agent-mindmap: AgentOrchestrator           *)
(* (executeWorkflow / executeNode / callLLM) and the tool registry         *)
(* (executeTool) of src/lib/agent-tools.ts.                                *)
(*                                                                         *)
(* Node ids are naturals.  The node list of a run is <<1, ..., k>>; the id *)
(* MaxNodes + 1 never names a node, so an edge to it dangles.  Every       *)
(* onUpdate call ends an action, so each published snapshot is a state of  *)
(* the model; every await (model gateway, tool body) ends an action too.   *)
(***************************************************************************)
EXTENDS Naturals, Sequences, FiniteSets, TLC

VARIABLES
  nodes,       \* argument of executeWorkflow: the node ids, in list order
  edges,       \* argument of executeWorkflow: records [source, target]
  userInput,   \* argument of executeWorkflow
  state,       \* this.state : AgentExecutionState
  pc,          \* position of the run's single thread of control
  stack,       \* indices into state.steps of the active executeNode frames
  messages,    \* callLLM's local conversation
  toolCalls,   \* callLLM's local tool-call log
  pending,     \* tool calls of the current assistant message not yet handled
  thrown,      \* the exception being propagated, or NoError
  published,   \* the states handed to onUpdate, in call order
  requested,   \* per Step, the tool calls the model requested (history)
  inFlight,    \* ids of the tool calls whose executeTool promise is pending
  events,      \* the events enqueued on the execute-agent stream, in order
  closed,      \* controller.close() was called
  invoked,     \* the tool bodies run (tool.execute calls), in call order
  server,      \* the execute-agent requests being served side by side and
               \* the AgentOrchestrator instances created for them
  generated,   \* the generate-workflow request being handled and its response
  canvas,      \* the page's nodes and edges (React state of the editor)
  store,       \* the workflows table and the last /api/workflows exchange
  client       \* the page's executeAgent call and the stream it reads

vars == <<nodes, edges, userInput, state, pc, stack, messages, toolCalls,
          pending, thrown, published, requested, inFlight, events, closed,
          invoked, server, generated, canvas, store, client>>

-----------------------------------------------------------------------------
(* Bounds *)

MaxNodes == 3
MaxEdges == 2
MaxSteps == 3
MaxToolRequests == 2
MaxBatch == 2
MaxRuns == 2
MaxRequests == 2
MaxGenNodes == 3
MaxGenEdges == 2
MaxRows == 2
MaxEvents == 3

-----------------------------------------------------------------------------
(* Values *)

Undefined == "undefined"
NullNode == 0
NoError == [isError |-> FALSE, message |-> "none"]

None == <<>>
Some(x) == <<x>>

NodeIdSpace == 1 .. (MaxNodes + 1)

NoStartMessage == "No starting node found in workflow"
UnknownErrorMessage == "Unknown error"
NoResponse == "No response generated"
SystemPrompt == "You are an AI agent executing a workflow. Process each step carefully and use tools when appropriate."

\* What the model gateway can answer or throw in this model.
UserInputs == {"hi"}
Contents == {"", "answer"}
GatewayErrors == {[isError |-> TRUE, message |-> "Connection error."]}
ParseError == [isError |-> TRUE, message |-> "Unexpected token in JSON"]

\* The tool names of agentTools, in catalog order.
agentTools == <<"web_search", "calculate", "get_weather", "send_email",
                "create_calendar_event", "analyze_sentiment">>

\* Requests the model makes: a tool name and the kind of its arguments
\* payload ("valid": parses and has the declared fields; "nonconforming":
\* parses but lacks them; "malformed": not JSON).
ToolRequestKinds ==
  { [name |-> "calculate",         arguments |-> "valid"],
    [name |-> "calculate",         arguments |-> "nonconforming"],
    [name |-> "analyze_sentiment", arguments |-> "nonconforming"],
    [name |-> "unknown_tool",      arguments |-> "valid"],
    [name |-> "calculate",         arguments |-> "malformed"] }

-----------------------------------------------------------------------------
(* Pure helpers *)

SeqsUpTo(S, n) == UNION { [1 .. k -> S] : k \in 0 .. n }

Range(s) == { s[i] : i \in DOMAIN s }

\* Array.prototype.find over the results of its predicate: the index of the
\* first TRUE of a sequence of booleans, 0 when there is none
FirstIndex(hits) ==
  IF \E i \in DOMAIN hits : hits[i]
  THEN CHOOSE i \in DOMAIN hits : hits[i] /\ \A j \in 1 .. (i - 1) : ~hits[j]
  ELSE 0

\* mutant: the message of the thrown error is dropped
ErrorMessageDropped(e) == UnknownErrorMessage

\* error instanceof Error ? error.message : 'Unknown error'
ErrorMessage(e) == IF e.isError THEN e.message ELSE UnknownErrorMessage

Last(s) == s[Len(s)]

\* this.state as the constructor leaves it (executionId carries no behaviour)
InitialState ==
  [status |-> "initializing", steps |-> <<>>, currentNode |-> NullNode,
   finalOutput |-> Undefined, error |-> Undefined]

\* nodes.find(node => !edges.some(edge => edge.target === node.id)),
\* as an index into nodes; 0 when find returns undefined
HasIncoming(es, n) == \E i \in DOMAIN es : es[i].target = n

\* mutant: the first node of the list is taken as the start node
StartNodeIndexFirst(ns, es) == IF ns = <<>> THEN 0 ELSE 1

\* mutant: falls back to the first node when every node has an incoming edge
StartNodeIndexOrFirst(ns, es) ==
  IF \E i \in DOMAIN ns : ~HasIncoming(es, ns[i])
  THEN FirstIndex([i \in DOMAIN ns |-> ~HasIncoming(es, ns[i])])
  ELSE IF ns = <<>> THEN 0 ELSE 1

StartNodeIndex(ns, es) ==
  FirstIndex([i \in DOMAIN ns |-> ~HasIncoming(es, ns[i])])

\* mutant: the filter compares the edge's target
NextEdgesByTarget(es, n) == SelectSeq(es, LAMBDA e : e.target = n)

\* edges.filter(edge => edge.source === node.id)
NextEdges(es, n) == SelectSeq(es, LAMBDA e : e.source = n)

\* nodes.find(n => n.id === nextEdge.target), as an index; 0 when undefined
NodeIndex(ns, id) == FirstIndex([i \in DOMAIN ns |-> ns[i] = id])

\* buildNodePrompt: a deterministic combination of the node and the input
buildNodePrompt(node, input) == [node |-> node, input |-> input]

\* the step object executeNode creates (nodeName and timestamp are derived
\* from the node and the clock and are never read by the engine)
NewStep(id, node, input) ==
  [id |-> id, nodeId |-> node, status |-> "running", input |-> input,
   output |-> Undefined, toolCalls |-> None, error |-> Undefined]

\* the first two messages of callLLM's conversation
InitialMessages(prompt) ==
  << [role |-> "system", content |-> SystemPrompt],
     [role |-> "user", content |-> prompt] >>

\* JSON.parse(toolCall.function.arguments) throws on a malformed payload
ParseThrows(arguments) == arguments = "malformed"

\* agentTools.find(t => t.name === toolName) !== undefined
ToolRegistered(name) == \E i \in DOMAIN agentTools : agentTools[i] = name

\* tool.execute(args): analyze_sentiment reads args.text.toLowerCase() and
\* throws when the field is absent; the other bodies return for any args
ToolBodyThrows(name, arguments) ==
  name = "analyze_sentiment" /\ arguments # "valid"

\* executeTool: throws when the tool is not found or its body throws,
\* otherwise returns the body's result
executeToolThrows(name, arguments) ==
  ~ToolRegistered(name) \/ ToolBodyThrows(name, arguments)
executeToolResult(name, arguments) == [by |-> name, on |-> arguments]

\* mutant: the content is returned as it is
FinalContentRaw(content) == content

\* assistantMessage.content || 'No response generated'
FinalContent(content) == IF content = "" THEN NoResponse ELSE content

\* the number of tool calls the model has requested in this run
RECURSIVE SumLen(_)
SumLen(ss) == IF ss = <<>> THEN 0 ELSE Len(Head(ss)) + SumLen(Tail(ss))

-----------------------------------------------------------------------------
(* Inputs of a run *)

NodeLists == { [i \in 1 .. k |-> i] : k \in 0 .. MaxNodes }
EdgeSpace == [source : 1 .. MaxNodes, target : NodeIdSpace]
EdgeLists == SeqsUpTo(EdgeSpace, MaxEdges)
Batches == SeqsUpTo(ToolRequestKinds, MaxBatch) \ {<<>>}

Init ==
  /\ nodes \in NodeLists
  /\ edges \in EdgeLists
  /\ userInput \in UserInputs
  /\ state = InitialState
  /\ pc = "idle"
  /\ stack = <<>>
  /\ messages = <<>>
  /\ toolCalls = <<>>
  /\ pending = <<>>
  /\ thrown = NoError
  /\ published = <<>>
  /\ requested = <<>>
  /\ inFlight = {}
  /\ events = <<>>
  /\ closed = FALSE
  /\ invoked = <<>>
  /\ server = [requests |-> <<>>, orchestrators |-> <<>>]
  /\ generated = [pc |-> "idle"]
  /\ canvas = [pc |-> "empty"]
  /\ store = [pc |-> "empty"]
  /\ client = [pc |-> "unmounted"]

-----------------------------------------------------------------------------
(* AgentOrchestrator *)

\* JSON.stringify drops a key whose value is undefined
JsonOptional(key, value) == IF value = Undefined THEN <<>> ELSE key :> value

\* JSON.stringify of an AgentStep
JsonStep(step) ==
  [id |-> step.id, nodeId |-> step.nodeId, status |-> step.status,
   input |-> step.input]
  @@ JsonOptional("output", step.output)
  @@ (IF step.toolCalls = None THEN <<>>
      ELSE "toolCalls" :> step.toolCalls[1])
  @@ JsonOptional("error", step.error)

\* JSON.stringify of an AgentExecutionState
JsonState(st) ==
  [status |-> st.status,
   steps |-> [i \in DOMAIN st.steps |-> JsonStep(st.steps[i])],
   currentNode |-> st.currentNode]
  @@ JsonOptional("finalOutput", st.finalOutput)
  @@ JsonOptional("error", st.error)

\* reading a key of a parsed event: undefined when the key is absent
Field(ev, key) == IF key \in DOMAIN ev THEN ev[key] ELSE Undefined

\* JSON.stringify(state) as one 'data: ...' event: the fields of the state
\* as they are when the callback runs
UpdateEvent(st) == JsonState(st)

\* mutant: the callback drops the snapshots of completed Steps
onUpdateLossy(st) ==
  events' = IF \E i \in DOMAIN st.steps : st.steps[i].status = "completed"
            THEN events ELSE Append(events, UpdateEvent(st))

\* the callback the execute-agent route passes to executeWorkflow:
\* controller.enqueue(encoder.encode(`data: ${JSON.stringify(state)}\n\n`))
onUpdate(st) == events' = Append(events, UpdateEvent(st))

\* mutant: the callback is called before the transition is made
PublishStale(st) ==
  /\ published' = Append(published, state)
  /\ onUpdate(state)

\* onUpdate?.(this.state), called with the state st
Publish(st) ==
  /\ published' = Append(published, st)
  /\ onUpdate(st)

\* `step_${Date.now()}_${Math.random()...}`: the n-th id generated in a
\* run, a token distinct from the ids generated before it
StepId(n) == n

\* mutant: currentNode is not updated
StateWithStepNoCurrent(st, node, input) ==
  [st EXCEPT !.steps = Append(@, NewStep(StepId(Len(@) + 1), node, input))]

\* mutant: unshift instead of push
StateWithStepUnshift(st, node, input) ==
  [st EXCEPT !.currentNode = node,
             !.steps = <<NewStep(StepId(Len(@) + 1), node, input)>> \o @]

\* executeNode up to its first await: create the Step, set currentNode,
\* push, publish, build the prompt and enter callLLM
StateWithStep(st, node, input) ==
  [st EXCEPT !.currentNode = node,
             !.steps = Append(@, NewStep(StepId(Len(@) + 1), node, input))]

BeginNode(node, input) ==
  /\ state' = StateWithStep(state, node, input)
  /\ Publish(state')
  /\ stack' = Append(stack, Len(state.steps) + 1)
  /\ requested' = Append(requested, <<>>)
  /\ messages' = InitialMessages(buildNodePrompt(node, input))
  /\ toolCalls' = <<>>
  /\ pending' = <<>>
  /\ pc' = "gateway"

\* executeWorkflow: status = 'running'; onUpdate
ExecuteWorkflow ==
  /\ pc = "idle"
  /\ state' = [state EXCEPT !.status = "running"]
  /\ Publish(state')
  /\ pc' = "findStart"
  /\ UNCHANGED <<generated, canvas, store, client, server, nodes,
                 edges, userInput, invoked, closed, inFlight,
                 stack, messages, toolCalls,
                 pending, thrown, requested>>

\* executeWorkflow: a start node exists; executeNode(startNode, userInput)
StartFound ==
  /\ pc = "findStart"
  /\ StartNodeIndex(nodes, edges) # 0
  /\ BeginNode(nodes[StartNodeIndex(nodes, edges)], userInput)
  /\ UNCHANGED <<generated, canvas, store, client, server, nodes,
                 edges, userInput, invoked, closed, inFlight,
                 thrown>>

\* executeWorkflow: no start node; throw new Error(...)
StartMissing ==
  /\ pc = "findStart"
  /\ StartNodeIndex(nodes, edges) = 0
  /\ thrown' = [isError |-> TRUE, message |-> NoStartMessage]
  /\ pc' = "catchWorkflow"
  /\ UNCHANGED <<generated, canvas, store, client, server, nodes,
                 edges, userInput, invoked, closed, inFlight,
                 state, stack, messages, toolCalls,
                 pending, published, events, requested>>

\* mutant: the call is made again after it failed
GatewayThrowsRetried ==
  /\ pc = "gateway"
  /\ \E e \in GatewayErrors : thrown' = e
  /\ pc' = "gateway"
  /\ UNCHANGED <<generated, canvas, store, client, server, nodes,
                 edges, userInput, invoked, closed, inFlight,
                 state, stack, messages, toolCalls,
                 pending, published, events, requested>>

\* callLLM: openai.chat.completions.create rejects
GatewayThrows ==
  /\ pc = "gateway"
  /\ \E e \in GatewayErrors : thrown' = e
  /\ pc' = "catchNode"
  /\ UNCHANGED <<generated, canvas, store, client, server, nodes,
                 edges, userInput, invoked, closed, inFlight,
                 state, stack, messages, toolCalls,
                 pending, published, events, requested>>

\* the tool calls of one assistant message, with the ids the provider gives
WithCallIds(batch, base) ==
  [i \in DOMAIN batch |->
     [id |-> base + i, name |-> batch[i].name,
      arguments |-> batch[i].arguments]]

\* callLLM: the response carries tool calls; messages.push(assistantMessage)
GatewayToolRequests ==
  /\ pc = "gateway"
  /\ \E batch \in Batches :
       /\ SumLen(requested) + Len(batch) <= MaxToolRequests
       /\ LET calls == WithCallIds(batch, SumLen(requested)) IN
            /\ messages' = Append(messages,
                                  [role |-> "assistant", tool_calls |-> calls])
            /\ pending' = calls
            /\ requested' = [requested EXCEPT ![Len(requested)] = @ \o calls]
  /\ pc' = "tool"
  /\ UNCHANGED <<generated, canvas, store, client, server, nodes,
                 edges, userInput, invoked, closed, inFlight,
                 state, stack, toolCalls, thrown,
                 published, events>>

\* the tool message pushed for a call
ToolMessage(call, content) ==
  [role |-> "tool", tool_call_id |-> call.id, content |-> content]

\* mutant: the for loop is left after the first call
AfterToolCallBreak ==
  /\ pending' = <<>>
  /\ pc' = "gateway"

AfterToolCall ==
  /\ pending' = Tail(pending)
  /\ pc' = IF Tail(pending) = <<>> THEN "gateway" ELSE "tool"

\* mutant: an unregistered name falls back to the first tool of the catalog
BodiesRunWithFallback(inv, call) ==
  Append(inv, [call |-> call.id,
               tool |-> IF ToolRegistered(call.name) THEN call.name
                        ELSE agentTools[1],
               arguments |-> call.arguments])

\* executeTool(toolName, toolArgs): tool.execute(args) is called when
\* agentTools.find finds the tool, with the parsed arguments as they are
BodiesRun(inv, call) ==
  IF ToolRegistered(call.name)
  THEN Append(inv, [call |-> call.id, tool |-> call.name,
                    arguments |-> call.arguments])
  ELSE inv

\* callLLM loop body: the arguments parse and executeTool is called; its
\* promise is awaited
ToolCallStart ==
  /\ pc = "tool"
  /\ ~ParseThrows(Head(pending).arguments)
  /\ inFlight' = inFlight \cup {Head(pending).id}
  /\ invoked' = BodiesRun(invoked, Head(pending))
  /\ pc' = "awaitTool"
  /\ UNCHANGED <<generated, canvas, store, client, server, nodes,
                 edges, userInput, closed, state, stack, messages,
                 toolCalls, pending, thrown, published, events, requested>>

\* mutant: the loop goes on while the call's executeTool is still pending
InFlightAfterSettleNotAwaited(calls, call) == calls

\* the pending executeTool promises after the awaited one settled
InFlightAfterSettle(calls, call) == calls \ {call.id}

\* callLLM loop body: JSON.parse throws, outside the inner try
ToolCallParseError ==
  /\ pc = "tool"
  /\ ParseThrows(Head(pending).arguments)
  /\ thrown' = ParseError
  /\ pc' = "catchNode"
  /\ UNCHANGED <<generated, canvas, store, client, server, nodes,
                 edges, userInput, invoked, closed, inFlight,
                 state, stack, messages, toolCalls,
                 pending, published, events, requested>>

\* the entries of the log after a call's tool returned
LogAfterSuccess(log, call) ==
  Append(log, [name |-> call.name, arguments |-> call.arguments,
               result |-> executeToolResult(call.name, call.arguments)])

\* the entries of the log after a call's tool threw (the catch logs nothing)
LogAfterFailure(log, call) == log

\* callLLM loop body: executeTool returns
ToolCallSuccess ==
  /\ pc = "awaitTool"
  /\ LET call == Head(pending) IN
       /\ ~executeToolThrows(call.name, call.arguments)
       /\ toolCalls' = LogAfterSuccess(toolCalls, call)
       /\ messages' = Append(messages,
            ToolMessage(call, executeToolResult(call.name, call.arguments)))
  /\ inFlight' = InFlightAfterSettle(inFlight, Head(pending))
  /\ AfterToolCall
  /\ UNCHANGED <<generated, canvas, store, client, server, nodes,
                 edges, userInput, invoked, closed,
                 state, stack, thrown, published, events,
                 requested>>

\* mutant: there is no inner catch, the tool's error leaves callLLM
ToolCallFailureFatal ==
  /\ pc = "awaitTool"
  /\ executeToolThrows(Head(pending).name, Head(pending).arguments)
  /\ thrown' = [isError |-> TRUE, message |-> "Tool execution failed"]
  /\ inFlight' = InFlightAfterSettle(inFlight, Head(pending))
  /\ pc' = "catchNode"
  /\ UNCHANGED <<generated, canvas, store, client, server, nodes,
                 edges, userInput, invoked, closed, state, stack,
                 messages, toolCalls, pending, published, events, requested>>

\* callLLM loop body: executeTool throws; the inner catch answers for it
ToolCallFailure ==
  /\ pc = "awaitTool"
  /\ LET call == Head(pending) IN
       /\ executeToolThrows(call.name, call.arguments)
       /\ toolCalls' = LogAfterFailure(toolCalls, call)
       /\ messages' = Append(messages,
            ToolMessage(call, [error |-> "Tool execution failed"]))
  /\ inFlight' = InFlightAfterSettle(inFlight, Head(pending))
  /\ AfterToolCall
  /\ UNCHANGED <<generated, canvas, store, client, server, nodes,
                 edges, userInput, invoked, closed,
                 state, stack, thrown, published, events,
                 requested>>

\* mutant: the status assignment is missing
CompletedStepStillRunning(step, content, log) ==
  [step EXCEPT !.output = content, !.toolCalls = Some(log)]

\* executeNode after callLLM returned: output, toolCalls, status
CompletedStep(step, content, log) ==
  [step EXCEPT !.output = content, !.toolCalls = Some(log),
               !.status = "completed"]

\* callLLM: the response carries no tool calls; callLLM returns and
\* executeNode completes the Step and publishes
GatewayFinalAnswer ==
  /\ pc = "gateway"
  /\ \E content \in Contents :
       state' = [state EXCEPT !.steps[Last(stack)] =
                   CompletedStep(@, FinalContent(content), toolCalls)]
  /\ Publish(state')
  /\ pc' = "route"
  /\ UNCHANGED <<generated, canvas, store, client, server, nodes,
                 edges, userInput, invoked, closed, inFlight,
                 stack, messages, toolCalls,
                 pending, thrown, requested>>

\* the Step of the innermost executeNode frame
CurrentStep == state.steps[Last(stack)]

\* mutant: the terminal node's input is stored as the final output
StateWithFinalOutputFromInput(st, step) ==
  [st EXCEPT !.finalOutput = step.input]

\* this.state.finalOutput = result.content
StateWithFinalOutput(st, step) == [st EXCEPT !.finalOutput = step.output]

\* executeNode: no outgoing edge; store the final output and return
RouteTerminal ==
  /\ pc = "route"
  /\ NextEdges(edges, CurrentStep.nodeId) = <<>>
  /\ state' = StateWithFinalOutput(state, CurrentStep)
  /\ pc' = "return"
  /\ UNCHANGED <<generated, canvas, store, client, server, nodes,
                 edges, userInput, invoked, closed, inFlight,
                 stack, messages, toolCalls,
                 pending, thrown, published, events, requested>>

\* mutant: the last outgoing edge is followed
ChosenEdgeLast(nextEdges) == nextEdges[Len(nextEdges)]

\* const nextEdge = nextEdges[0]
ChosenEdge(nextEdges) == nextEdges[1]

\* mutant: the node's own input is handed on
NextInputSameInput(step) == step.input

\* the input of the recursive executeNode call: result.content
NextInput(step) == step.output

\* executeNode: follow the first outgoing edge into a recursive executeNode
RouteNext ==
  /\ pc = "route"
  /\ NextEdges(edges, CurrentStep.nodeId) # <<>>
  /\ LET target == ChosenEdge(NextEdges(edges, CurrentStep.nodeId)).target IN
       /\ NodeIndex(nodes, target) # 0
       /\ Len(state.steps) < MaxSteps
       /\ BeginNode(nodes[NodeIndex(nodes, target)], NextInput(CurrentStep))
  /\ UNCHANGED <<generated, canvas, store, client, server, nodes,
                 edges, userInput, invoked, closed, inFlight,
                 thrown>>

\* executeNode: the first outgoing edge targets no node; return
RouteDangling ==
  /\ pc = "route"
  /\ NextEdges(edges, CurrentStep.nodeId) # <<>>
  /\ NodeIndex(nodes,
               ChosenEdge(NextEdges(edges, CurrentStep.nodeId)).target) = 0
  /\ pc' = "return"
  /\ UNCHANGED <<generated, canvas, store, client, server, nodes,
                 edges, userInput, invoked, closed, inFlight,
                 state, stack, messages, toolCalls,
                 pending, thrown, published, events, requested>>

\* executeWorkflow after executeNode resolved: status = 'completed'; onUpdate
CompleteWorkflow ==
  /\ pc = "return"
  /\ state' = [state EXCEPT !.status = "completed"]
  /\ Publish(state')
  /\ stack' = <<>>
  /\ pc' = "resolved"
  /\ UNCHANGED <<generated, canvas, store, client, server, nodes,
                 edges, userInput, invoked, closed, inFlight,
                 messages, toolCalls, pending,
                 thrown, requested>>

\* executeNode's catch: mark the frame's Step, publish, rethrow
FailedStep(step, e) ==
  [step EXCEPT !.status = "error", !.error = ErrorMessage(e)]

CatchNode ==
  /\ pc = "catchNode"
  /\ stack # <<>>
  /\ state' = [state EXCEPT !.steps[Last(stack)] = FailedStep(@, thrown)]
  /\ Publish(state')
  /\ stack' = SubSeq(stack, 1, Len(stack) - 1)
  /\ pc' = IF Len(stack) = 1 THEN "catchWorkflow" ELSE "catchNode"
  /\ UNCHANGED <<generated, canvas, store, client, server, nodes,
                 edges, userInput, invoked, closed, inFlight,
                 messages, toolCalls, pending,
                 thrown, requested>>

\* mutant: the catch does not rethrow, the call resolves
CatchWorkflowSwallows ==
  /\ pc = "catchWorkflow"
  /\ state' = [state EXCEPT !.status = "error",
                            !.error = ErrorMessage(thrown)]
  /\ Publish(state')
  /\ pc' = "resolved"
  /\ UNCHANGED <<generated, canvas, store, client, server, nodes,
                 edges, userInput, invoked, closed, inFlight,
                 stack, messages, toolCalls,
                 pending, thrown, requested>>

\* executeWorkflow's catch: status = 'error'; error; onUpdate; rethrow
CatchWorkflow ==
  /\ pc = "catchWorkflow"
  /\ state' = [state EXCEPT !.status = "error",
                            !.error = ErrorMessage(thrown)]
  /\ Publish(state')
  /\ pc' = "rejected"
  /\ UNCHANGED <<generated, canvas, store, client, server, nodes,
                 edges, userInput, invoked, closed, inFlight,
                 stack, messages, toolCalls,
                 pending, thrown, requested>>


-----------------------------------------------------------------------------
(* execute-agent route: the stream's start(controller) around the run *)

\* getState(): the object this.state
getState == state

\* JSON.stringify({ ...finalState, done: true })
DoneEvent(st) == ("done" :> TRUE) @@ JsonState(st)

\* JSON.stringify({ error: errorMessage, done: true })
ErrorDoneEvent(e) == [error |-> ErrorMessage(e), done |-> TRUE]

\* data.done as the reader of an event sees it
IsDone(ev) == "done" \in DOMAIN ev /\ ev.done

\* mutant: the error path closes the stream without a final event
StreamErrorSilent ==
  /\ pc = "rejected"
  /\ closed' = TRUE
  /\ pc' = "closed"
  /\ UNCHANGED <<generated, canvas, store, client, server, nodes,
                 edges, userInput, invoked, inFlight, state, stack, messages,
                 toolCalls, pending, thrown, published, events, requested>>

\* mutant: after close() the success path falls into the catch
StreamDoneThenCatch ==
  /\ pc = "resolved"
  /\ events' = Append(events, DoneEvent(getState))
  /\ closed' = TRUE
  /\ pc' = "rejected"
  /\ UNCHANGED <<generated, canvas, store, client, server, nodes,
                 edges, userInput, invoked, inFlight, state, stack, messages,
                 toolCalls, pending, thrown, published, requested>>

\* start: executeWorkflow resolved; enqueue the final event and close
StreamDone ==
  /\ pc = "resolved"
  /\ events' = Append(events, DoneEvent(getState))
  /\ closed' = TRUE
  /\ pc' = "closed"
  /\ UNCHANGED <<generated, canvas, store, client, server, nodes,
                 edges, userInput, invoked, inFlight, state, stack, messages,
                 toolCalls, pending, thrown, published, requested>>

\* start: executeWorkflow rejected; the catch enqueues the error event and
\* closes
StreamError ==
  /\ pc = "rejected"
  /\ events' = Append(events, ErrorDoneEvent(thrown))
  /\ closed' = TRUE
  /\ pc' = "closed"
  /\ UNCHANGED <<generated, canvas, store, client, server, nodes,
                 edges, userInput, invoked, inFlight, state, stack, messages,
                 toolCalls, pending, thrown, published, requested>>

Next ==
  \/ ExecuteWorkflow
  \/ StartFound
  \/ StartMissing
  \/ GatewayThrows
  \/ GatewayToolRequests
  \/ GatewayFinalAnswer
  \/ ToolCallStart
  \/ ToolCallParseError
  \/ ToolCallSuccess
  \/ ToolCallFailure
  \/ RouteTerminal
  \/ RouteNext
  \/ RouteDangling
  \/ CompleteWorkflow
  \/ CatchNode
  \/ CatchWorkflow
  \/ StreamDone
  \/ StreamError

Spec == Init /\ [][Next]_vars

-----------------------------------------------------------------------------
(* A caller that holds the orchestrator and calls executeWorkflow again *)

\* the number of executeWorkflow calls so far: each call's first onUpdate
\* hands over status running right after a settled (or no) run
RECURSIVE Runs(_)
Runs(pub) ==
  IF pub = <<>> THEN 0
  ELSE Runs(SubSeq(pub, 1, Len(pub) - 1)) +
       (IF /\ Last(pub).status = "running"
           /\ \/ Len(pub) = 1
              \/ pub[Len(pub) - 1].status \in {"completed", "error"}
        THEN 1 ELSE 0)

\* executeWorkflow called on an orchestrator whose previous call has
\* settled: status = 'running'; onUpdate (nothing of this.state is reset)
ExecuteWorkflowAgain ==
  /\ pc \in {"resolved", "rejected"}
  /\ Runs(published) < MaxRuns
  /\ Len(state.steps) < MaxSteps
  /\ state' = [state EXCEPT !.status = "running"]
  /\ Publish(state')
  /\ stack' = <<>>
  /\ thrown' = NoError
  /\ pc' = "findStart"
  /\ UNCHANGED <<generated, canvas, store, client, server, nodes,
                 edges, userInput, invoked, closed, inFlight, messages,
                 toolCalls, pending, requested>>

NextReuse == Next \/ ExecuteWorkflowAgain

\* the graphs of the runs in which the orchestrator is called again
InitReuse == Init /\ Len(edges) <= 1

SpecReuse == InitReuse /\ [][NextReuse]_vars

-----------------------------------------------------------------------------
(* Runs of any length.  callLLM's while loop has no iteration cap and       *)
(* executeNode no visited set, so a run can go on beyond the MaxToolRequests *)
(* tool calls and MaxSteps Steps whose history Spec keeps.  The two actions  *)
(* below continue such a run: they keep the control state of the code and    *)
(* forget the history so far (conversation rounds, Steps, snapshots),       *)
(* which no condition of the code reads.                                     *)

\* callLLM: one more response with tool calls; the earlier rounds of the
\* conversation, the log of their calls, the earlier Steps, their frames
\* and the snapshots so far are forgotten
GatewayToolRequestsMore ==
  /\ pc = "gateway"
  /\ \E batch \in Batches :
       /\ SumLen(requested) + Len(batch) > MaxToolRequests
       /\ LET calls == WithCallIds(batch, 0) IN
            /\ messages' = Append(SubSeq(messages, 1, 2),
                                  [role |-> "assistant", tool_calls |-> calls])
            /\ pending' = calls
            /\ requested' = <<calls>>
  /\ state' = [state EXCEPT !.steps = <<[CurrentStep EXCEPT !.id = StepId(1)]>>]
  /\ stack' = <<1>>
  /\ published' = <<>>
  /\ events' = <<>>
  /\ toolCalls' = <<>>
  /\ invoked' = <<>>
  /\ pc' = "tool"
  /\ UNCHANGED <<generated, canvas, store, client, server, nodes,
                 edges, userInput, closed, inFlight, thrown>>

\* executeNode: follow the first outgoing edge into one more recursive
\* executeNode; the earlier Steps, their frames and the snapshots so far
\* are forgotten
RouteNextBeyond ==
  /\ pc = "route"
  /\ NextEdges(edges, CurrentStep.nodeId) # <<>>
  /\ Len(state.steps) = MaxSteps
  /\ LET target == ChosenEdge(NextEdges(edges, CurrentStep.nodeId)).target
         input == NextInput(CurrentStep)
     IN
       /\ NodeIndex(nodes, target) # 0
       /\ state' = [state EXCEPT
                      !.currentNode = target,
                      !.steps = <<NewStep(StepId(1), target, input)>>]
       /\ messages' = InitialMessages(buildNodePrompt(target, input))
  /\ published' = <<state'>>
  /\ events' = <<UpdateEvent(state')>>
  /\ stack' = <<1>>
  /\ requested' = << <<>> >>
  /\ toolCalls' = <<>>
  /\ pending' = <<>>
  /\ invoked' = <<>>
  /\ pc' = "gateway"
  /\ UNCHANGED <<generated, canvas, store, client, server, nodes,
                 edges, userInput, closed, inFlight, thrown>>

NextLive == Next \/ GatewayToolRequestsMore \/ RouteNextBeyond

\* the graphs of the runs followed without bound
InitLive ==
  /\ Init
  /\ Len(nodes) <= 2
  /\ \A i \in DOMAIN edges :
       /\ edges[i].source \in Range(nodes)
       /\ edges[i].target \in Range(nodes) \cup {MaxNodes + 1}

\* every continuation of the run is eventually executed: the gateway and
\* the tools settle, and the event loop runs what waits for them
SpecLive == InitLive /\ [][NextLive]_vars /\ WF_vars(NextLive)

-----------------------------------------------------------------------------
(* Several execute-agent requests served side by side.  Each POST creates   *)
(* its stream and, in start(controller), its AgentOrchestrator; the runs'   *)
(* continuations interleave at every await.  A request keeps, next to what  *)
(* the code keeps, the state its own transitions alone produce (mine) and   *)
(* the events they alone would send (sent).  callLLM's conversation and     *)
(* tool-call log are locals of each call; a tool round is one step here.    *)

runVars == <<nodes, edges, userInput, state, pc, stack, messages, toolCalls,
             pending, thrown, published, requested, inFlight, events, closed,
             invoked, generated, canvas, store, client>>

\* the user input of the k-th request
RequestInput(k) == IF k = 1 THEN "hi" ELSE "hello"

\* the graphs the requests carry
RequestNodeLists == { ns \in NodeLists : Len(ns) < MaxNodes }
RequestEdgeLists ==
  { es \in SeqsUpTo([source : 1 .. (MaxNodes - 1),
                      target : 1 .. (MaxNodes - 1)], 1) : TRUE }

Req(r) == server.requests[r]

\* this.state of the orchestrator that serves request r
Orch(r) == server.orchestrators[Req(r).orchestrator]

\* mutant: one module-level orchestrator serves every request
SharedOrchestrator(n) == 1

\* const orchestrator = new AgentOrchestrator(apiKey, executionId): the
\* instance made for a request when n instances exist
NewOrchestrator(n) == n + 1

\* a step of request r's run: its orchestrator's state becomes st2, its own
\* state mine2, the request's locals q2; with pub, onUpdate is called
Transition(r, st2, mine2, pub, q2) ==
  server' =
    [requests |->
       [server.requests EXCEPT ![r] =
          [q2 EXCEPT !.mine = mine2,
                     !.events = IF pub THEN Append(@, UpdateEvent(st2)) ELSE @,
                     !.sent = IF pub THEN Append(@, UpdateEvent(mine2))
                              ELSE @]],
     orchestrators |->
       [server.orchestrators EXCEPT ![Req(r).orchestrator] = st2]]

\* POST: the request is accepted, its stream starts and its orchestrator is
\* constructed
Post ==
  /\ Len(server.requests) < MaxRequests
  /\ \E ns \in RequestNodeLists, es \in RequestEdgeLists :
       LET n == Len(server.orchestrators)
           o == NewOrchestrator(n)
       IN server' =
            [requests |->
               Append(server.requests,
                      [nodes |-> ns, edges |-> es,
                       userInput |-> RequestInput(Len(server.requests) + 1),
                       orchestrator |-> o, pc |-> "idle", stack |-> <<>>,
                       toolCalls |-> <<>>, thrown |-> NoError,
                       events |-> <<>>, closed |-> FALSE,
                       mine |-> InitialState, sent |-> <<>>]),
             orchestrators |->
               IF o > n THEN Append(server.orchestrators, InitialState)
               ELSE server.orchestrators]
  /\ UNCHANGED runVars

\* executeWorkflow: status = 'running'; onUpdate
RunExecuteWorkflow ==
  /\ \E r \in DOMAIN server.requests :
       /\ Req(r).pc = "idle"
       /\ Transition(r, [Orch(r) EXCEPT !.status = "running"],
                     [Req(r).mine EXCEPT !.status = "running"], TRUE,
                     [Req(r) EXCEPT !.pc = "findStart"])
  /\ UNCHANGED runVars

\* executeNode up to its first await, for the node and input given
RunBeginNode(r, node, input) ==
  Transition(r, StateWithStep(Orch(r), node, input),
             StateWithStep(Req(r).mine, node, input), TRUE,
             [Req(r) EXCEPT !.stack = Append(@, Len(Orch(r).steps) + 1),
                            !.toolCalls = <<>>,
                            !.pc = "gateway"])

\* executeWorkflow: a start node exists; executeNode(startNode, userInput)
RunStartFound ==
  /\ \E r \in DOMAIN server.requests :
       LET q == Req(r) IN
         /\ q.pc = "findStart"
         /\ StartNodeIndex(q.nodes, q.edges) # 0
         /\ RunBeginNode(r, q.nodes[StartNodeIndex(q.nodes, q.edges)],
                         q.userInput)
  /\ UNCHANGED runVars

\* executeWorkflow: no start node; throw new Error(...)
RunStartMissing ==
  /\ \E r \in DOMAIN server.requests :
       LET q == Req(r) IN
         /\ q.pc = "findStart"
         /\ StartNodeIndex(q.nodes, q.edges) = 0
         /\ Transition(r, Orch(r), q.mine, FALSE,
                       [q EXCEPT !.thrown = [isError |-> TRUE,
                                             message |-> NoStartMessage],
                                 !.pc = "catchWorkflow"])
  /\ UNCHANGED runVars

\* callLLM: a round with one tool call whose tool returns; the call is
\* logged in the call's local toolCalls
RunToolCall ==
  /\ \E r \in DOMAIN server.requests :
       LET q == Req(r) IN
         /\ q.pc = "gateway"
         /\ q.toolCalls = <<>>
         /\ Transition(r, Orch(r), q.mine, FALSE,
                       [q EXCEPT !.toolCalls =
                          LogAfterSuccess(@, [name |-> "calculate",
                                              arguments |-> "valid"])])
  /\ UNCHANGED runVars

\* callLLM: openai.chat.completions.create rejects
RunGatewayThrows ==
  /\ \E r \in DOMAIN server.requests, e \in GatewayErrors :
       /\ Req(r).pc = "gateway"
       /\ Transition(r, Orch(r), Req(r).mine, FALSE,
                     [Req(r) EXCEPT !.thrown = e, !.pc = "catchNode"])
  /\ UNCHANGED runVars

\* callLLM returns; executeNode completes the Step and publishes
RunFinalAnswer ==
  /\ \E r \in DOMAIN server.requests, content \in Contents :
       LET q == Req(r) IN
         /\ q.pc = "gateway"
         /\ Transition(r,
              [Orch(r) EXCEPT !.steps[Last(q.stack)] =
                 CompletedStep(@, FinalContent(content), q.toolCalls)],
              [q.mine EXCEPT !.steps[Last(q.stack)] =
                 CompletedStep(@, FinalContent(content), q.toolCalls)],
              TRUE, [q EXCEPT !.pc = "route"])
  /\ UNCHANGED runVars

\* executeNode: no outgoing edge; store the final output and return
RunRouteTerminal ==
  /\ \E r \in DOMAIN server.requests :
       LET q == Req(r)
           step == Orch(r).steps[Last(q.stack)]
       IN
         /\ q.pc = "route"
         /\ NextEdges(q.edges, step.nodeId) = <<>>
         /\ Transition(r, StateWithFinalOutput(Orch(r), step),
                       StateWithFinalOutput(q.mine, step), FALSE,
                       [q EXCEPT !.pc = "return"])
  /\ UNCHANGED runVars

\* executeNode: follow the first outgoing edge into a recursive executeNode
RunRouteNext ==
  /\ \E r \in DOMAIN server.requests :
       LET q == Req(r)
           step == Orch(r).steps[Last(q.stack)]
       IN
         /\ q.pc = "route"
         /\ NextEdges(q.edges, step.nodeId) # <<>>
         /\ NodeIndex(q.nodes,
                      ChosenEdge(NextEdges(q.edges, step.nodeId)).target) # 0
         /\ Len(Orch(r).steps) < MaxSteps
         /\ RunBeginNode(r, ChosenEdge(NextEdges(q.edges, step.nodeId)).target,
                         NextInput(step))
  /\ UNCHANGED runVars

\* executeNode: the first outgoing edge targets no node; return
RunRouteDangling ==
  /\ \E r \in DOMAIN server.requests :
       LET q == Req(r)
           step == Orch(r).steps[Last(q.stack)]
       IN
         /\ q.pc = "route"
         /\ NextEdges(q.edges, step.nodeId) # <<>>
         /\ NodeIndex(q.nodes,
                      ChosenEdge(NextEdges(q.edges, step.nodeId)).target) = 0
         /\ Transition(r, Orch(r), q.mine, FALSE, [q EXCEPT !.pc = "return"])
  /\ UNCHANGED runVars

\* executeWorkflow after executeNode resolved: status = 'completed'; onUpdate
RunCompleteWorkflow ==
  /\ \E r \in DOMAIN server.requests :
       /\ Req(r).pc = "return"
       /\ Transition(r, [Orch(r) EXCEPT !.status = "completed"],
                     [Req(r).mine EXCEPT !.status = "completed"], TRUE,
                     [Req(r) EXCEPT !.stack = <<>>, !.pc = "resolved"])
  /\ UNCHANGED runVars

\* executeNode's catch: mark the frame's Step, publish, rethrow
RunCatchNode ==
  /\ \E r \in DOMAIN server.requests :
       LET q == Req(r) IN
         /\ q.pc = "catchNode"
         /\ q.stack # <<>>
         /\ Transition(r,
              [Orch(r) EXCEPT !.steps[Last(q.stack)] = FailedStep(@, q.thrown)],
              [q.mine EXCEPT !.steps[Last(q.stack)] = FailedStep(@, q.thrown)],
              TRUE,
              [q EXCEPT !.stack = SubSeq(@, 1, Len(@) - 1),
                        !.pc = IF Len(q.stack) = 1 THEN "catchWorkflow"
                               ELSE "catchNode"])
  /\ UNCHANGED runVars

\* executeWorkflow's catch: status = 'error'; error; onUpdate; rethrow
RunCatchWorkflow ==
  /\ \E r \in DOMAIN server.requests :
       LET q == Req(r) IN
         /\ q.pc = "catchWorkflow"
         /\ Transition(r,
              [Orch(r) EXCEPT !.status = "error",
                              !.error = ErrorMessage(q.thrown)],
              [q.mine EXCEPT !.status = "error",
                             !.error = ErrorMessage(q.thrown)],
              TRUE, [q EXCEPT !.pc = "rejected"])
  /\ UNCHANGED runVars

\* start: executeWorkflow resolved; enqueue the final event and close
RunStreamDone ==
  /\ \E r \in DOMAIN server.requests :
       LET q == Req(r) IN
         /\ q.pc = "resolved"
         /\ server' = [server EXCEPT !.requests[r] =
              [q EXCEPT !.events = Append(@, DoneEvent(Orch(r))),
                        !.sent = Append(@, DoneEvent(q.mine)),
                        !.closed = TRUE, !.pc = "closed"]]
  /\ UNCHANGED runVars

\* start: executeWorkflow rejected; enqueue the error event and close
RunStreamError ==
  /\ \E r \in DOMAIN server.requests :
       LET q == Req(r) IN
         /\ q.pc = "rejected"
         /\ server' = [server EXCEPT !.requests[r] =
              [q EXCEPT !.events = Append(@, ErrorDoneEvent(q.thrown)),
                        !.sent = Append(@, ErrorDoneEvent(q.thrown)),
                        !.closed = TRUE, !.pc = "closed"]]
  /\ UNCHANGED runVars

NextServer ==
  \/ Post
  \/ RunExecuteWorkflow
  \/ RunStartFound
  \/ RunStartMissing
  \/ RunToolCall
  \/ RunGatewayThrows
  \/ RunFinalAnswer
  \/ RunRouteTerminal
  \/ RunRouteNext
  \/ RunRouteDangling
  \/ RunCompleteWorkflow
  \/ RunCatchNode
  \/ RunCatchWorkflow
  \/ RunStreamDone
  \/ RunStreamError

InitServer == Init /\ nodes = <<>> /\ edges = <<>>

SpecServer == InitServer /\ [][NextServer]_vars

-----------------------------------------------------------------------------
(* generate-workflow route: POST turns the model's JSON into the response.  *)
(* Node ids are strings in the code; here 0 is an absent or empty id,       *)
(* 1 .. MaxGenNodes are the strings node_0, node_1, ... and MaxGenNodes + 1 *)
(* is some other string.                                                     *)

engineVars == <<nodes, edges, userInput, state, pc, stack, messages,
                toolCalls, pending, thrown, published, requested, inFlight,
                events, closed, invoked, server>>

\* `node_${index}`, index counted from 0
DefaultNodeId(index) == index + 1

GenIds == 0 .. (MaxGenNodes + 1)
GenEndpoints == 1 .. (MaxGenNodes + 1)
GenEdgeLists ==
  SeqsUpTo([source : GenEndpoints, target : GenEndpoints], MaxGenEdges)

\* what JSON.parse(content) can be: the node ids as the model gave them and
\* the edges, or no edges array at all
ModelWorkflows ==
  [nodes : SeqsUpTo(GenIds, MaxGenNodes), edges : GenEdgeLists,
   hasEdges : {TRUE}]
  \cup [nodes : SeqsUpTo(GenIds, MaxGenNodes), edges : {<<>>},
        hasEdges : {FALSE}]

\* workflow.nodes.map((node, index) => ({ id: node.id || `node_${index}`,
\* ... })): the ids of the returned nodes
NormalisedNodeIds(ns) ==
  [i \in DOMAIN ns |-> IF ns[i] = 0 THEN DefaultNodeId(i - 1) ELSE ns[i]]

\* mutant: only the source of an edge is validated
ValidEdgesBySource(es, nodeIds) ==
  SelectSeq(es, LAMBDA e : e.source \in nodeIds)

\* workflow.edges.filter(edge => nodeIds.has(edge.source) &&
\* nodeIds.has(edge.target))
ValidEdges(es, nodeIds) ==
  SelectSeq(es, LAMBDA e : e.source \in nodeIds /\ e.target \in nodeIds)

\* workflow.nodes.slice(0, -1).map((node, index) => ({ source: node.id,
\* target: workflow.nodes[index + 1].id, ... }))
SequentialEdges(ns) ==
  [i \in 1 .. (Len(ns) - 1) |-> [source |-> ns[i], target |-> ns[i + 1]]]

\* the edges of the response: the valid ones, or the sequential fallback
GeneratedEdges(ns, es) ==
  IF ValidEdges(es, Range(ns)) = <<>> /\ Len(ns) > 1
  THEN SequentialEdges(ns)
  ELSE ValidEdges(es, Range(ns))

\* POST: the body is read; without a message the answer is 400, otherwise
\* the model is asked
GenerateRequest ==
  /\ generated.pc \in {"idle", "done"}
  /\ \E message \in {"", "design a workflow"} :
       generated' = IF message = ""
                    THEN [pc |-> "done", status |-> 400]
                    ELSE [pc |-> "waiting"]
  /\ UNCHANGED <<engineVars, canvas, store, client>>

\* POST: the create call rejects, or the content is empty or not JSON; the
\* catch answers 500
GenerateModelFails ==
  /\ generated.pc = "waiting"
  /\ generated' = [pc |-> "done", status |-> 500]
  /\ UNCHANGED <<engineVars, canvas, store, client>>

\* POST: the content parses; structure checks, node normalisation, edge
\* validation, fallback and the response
GenerateModelReturns ==
  /\ generated.pc = "waiting"
  /\ \E workflow \in ModelWorkflows :
       generated' =
         IF workflow.nodes = <<>> \/ ~workflow.hasEdges
         THEN [pc |-> "done", status |-> 500]
         ELSE [pc |-> "done", status |-> 200, workflow |-> workflow,
               nodes |-> NormalisedNodeIds(workflow.nodes),
               edges |-> GeneratedEdges(NormalisedNodeIds(workflow.nodes),
                                        workflow.edges)]
  /\ UNCHANGED <<engineVars, canvas, store, client>>

NextGenerate ==
  \/ GenerateRequest
  \/ GenerateModelFails
  \/ GenerateModelReturns

InitGenerate == Init /\ nodes = <<>> /\ edges = <<>>

SpecGenerate == InitGenerate /\ [][NextGenerate]_vars

-----------------------------------------------------------------------------
(* The editor page: the nodes and edges on the canvas and handleDeleteNode  *)

\* the graphs that can be on the canvas: distinct node ids and edges
\* between nodes of the canvas (a node may have an edge to itself)
CanvasGraphs ==
  { g \in [nodes : NodeLists, edges : EdgeLists] :
      \A i \in DOMAIN g.edges :
        /\ g.edges[i].source \in Range(g.nodes)
        /\ g.edges[i].target \in Range(g.nodes) }

\* a workflow is generated or loaded onto the canvas: setNodes, setEdges
LoadWorkflow ==
  /\ canvas.pc = "empty"
  /\ \E g \in CanvasGraphs :
       canvas' = [pc |-> "ready", nodes |-> g.nodes, edges |-> g.edges]
  /\ UNCHANGED <<engineVars, generated, store, client>>

\* the edges pushed for the pairs of an incoming and an outgoing edge:
\* incomingEdges.forEach(inEdge => outgoingEdges.forEach(outEdge => ...))
RECURSIVE Reconnected(_, _)
Reconnected(incomingEdges, outgoingEdges) ==
  IF incomingEdges = <<>> THEN <<>>
  ELSE [j \in DOMAIN outgoingEdges |->
          [source |-> Head(incomingEdges).source,
           target |-> outgoingEdges[j].target]]
       \o Reconnected(Tail(incomingEdges), outgoingEdges)

\* newEdges of handleDeleteNode(nodeId) for the edges of the canvas
EdgesAfterDelete(es, nodeId) ==
  LET incomingEdges == SelectSeq(es, LAMBDA e : e.target = nodeId)
      outgoingEdges == SelectSeq(es, LAMBDA e : e.source = nodeId)
      newEdges == SelectSeq(es, LAMBDA e : e.source # nodeId
                                           /\ e.target # nodeId)
  IN IF incomingEdges # <<>> /\ outgoingEdges # <<>>
     THEN newEdges \o Reconnected(incomingEdges, outgoingEdges)
     ELSE newEdges

\* handleDeleteNode(nodeId): returns when the node is not found, otherwise
\* removes the node and sets the new edges
HandleDeleteNode ==
  /\ canvas.pc = "ready"
  /\ \E nodeId \in 1 .. MaxNodes :
       /\ nodeId \in Range(canvas.nodes)
       /\ canvas' = [canvas EXCEPT
            !.nodes = SelectSeq(@, LAMBDA n : n # nodeId),
            !.edges = EdgesAfterDelete(@, nodeId)]
  /\ UNCHANGED <<engineVars, generated, store, client>>

NextCanvas == LoadWorkflow \/ HandleDeleteNode

InitCanvas == Init /\ nodes = <<>> /\ edges = <<>>

SpecCanvas == InitCanvas /\ [][NextCanvas]_vars

-----------------------------------------------------------------------------
(* The workflows table and the /api/workflows route                          *)

\* the bodies of a POST request: 0 is a body without id, "undefined" a
\* body without name or description, <<>> one without nodes or edges
WorkflowNames == {Undefined, "", "plan"}
WorkflowDescriptions == {Undefined, "notes"}
WorkflowNodes == {None, Some(<<>>), Some(<<1>>)}
WorkflowEdges == {None, Some(<<>>)}
WorkflowIds == 0 .. (MaxRows + 1)

\* JSON.stringify(nodes), JSON.stringify(edges): the text of the array
JsonText(array) == [text |-> array]

\* the columns a request writes: name, description || null, nodes, edges
WorkflowRow(body) ==
  [name |-> body.name,
   description |-> IF body.description \in {Undefined, ""}
                   THEN "null" ELSE body.description,
   nodes |-> JsonText(body.nodes[1]),
   edges |-> JsonText(body.edges[1])]

\* db.exec(CREATE TABLE IF NOT EXISTS workflows ...) on a new data directory
OpenDatabase ==
  /\ store.pc = "empty"
  /\ store' = [pc |-> "open", rows |-> <<>>, seq |-> 0,
               request |-> [method |-> "none", id |-> 0, name |-> Undefined,
                            description |-> Undefined, nodes |-> None,
                            edges |-> None],
               response |-> [status |-> 0, message |-> "none", id |-> 0]]
  /\ UNCHANGED <<engineVars, generated, canvas, client>>

\* INSERT INTO workflows: the row gets the next AUTOINCREMENT id, which
\* is returned as lastInsertRowid
saveWorkflow(table, row) ==
  [rows |-> (table.seq + 1 :> row) @@ table.rows, seq |-> table.seq + 1]

updateWorkflowOrInsert(table, id, row) ==
  [rows |-> (id :> row) @@ table.rows, seq |-> table.seq]

\* UPDATE workflows SET ... WHERE id = ?
updateWorkflow(table, id, row) ==
  [rows |-> [i \in DOMAIN table.rows |->
               IF i = id THEN row ELSE table.rows[i]],
   seq |-> table.seq]

\* DELETE FROM workflows WHERE id = ?
deleteWorkflow(table, id) ==
  [rows |-> [i \in DOMAIN table.rows \ {id} |-> table.rows[i]],
   seq |-> table.seq]

\* !name || !nodes || !edges
MissingFields(body) ==
  \/ body.name \in {Undefined, ""}
  \/ body.nodes = None
  \/ body.edges = None

\* POST /api/workflows
PostWorkflows ==
  /\ store.pc = "open"
  /\ \E body \in [method : {"POST"}, id : WorkflowIds, name : WorkflowNames,
                  description : WorkflowDescriptions,
                  nodes : WorkflowNodes, edges : WorkflowEdges] :
       LET table == [rows |-> store.rows, seq |-> store.seq]
       IN IF MissingFields(body)
          THEN store' = [store EXCEPT
                 !.request = body,
                 !.response = [status |-> 400, id |-> 0, message |->
                                 "Name, nodes, and edges are required"]]
          ELSE IF body.id # 0
          THEN LET updated == updateWorkflow(table, body.id,
                                             WorkflowRow(body))
               IN store' = [store EXCEPT
                    !.rows = updated.rows, !.seq = updated.seq,
                    !.request = body,
                    !.response = [status |-> 200, id |-> body.id, message |->
                                    "Workflow updated successfully"]]
          ELSE /\ store.seq < MaxRows
               /\ LET saved == saveWorkflow(table, WorkflowRow(body))
                  IN store' = [store EXCEPT
                       !.rows = saved.rows, !.seq = saved.seq,
                       !.request = body,
                       !.response = [status |-> 200, id |-> saved.seq,
                                     message |->
                                       "Workflow saved successfully"]]
  /\ UNCHANGED <<engineVars, generated, canvas, client>>

\* DELETE /api/workflows?id=X (0: the request has no id parameter)
DeleteWorkflows ==
  /\ store.pc = "open"
  /\ \E id \in WorkflowIds :
       LET table == [rows |-> store.rows, seq |-> store.seq]
           request == [method |-> "DELETE", id |-> id, name |-> Undefined,
                       description |-> Undefined, nodes |-> None,
                       edges |-> None]
       IN IF id = 0
          THEN store' = [store EXCEPT
                 !.request = request,
                 !.response = [status |-> 400, id |-> 0, message |->
                                 "Workflow ID is required"]]
          ELSE store' = [store EXCEPT
                 !.rows = deleteWorkflow(table, id).rows,
                 !.request = request,
                 !.response = [status |-> 200, id |-> 0, message |->
                                 "Workflow deleted successfully"]]
  /\ UNCHANGED <<engineVars, generated, canvas, client>>

NextWorkflows == OpenDatabase \/ PostWorkflows \/ DeleteWorkflows

InitWorkflows == Init /\ nodes = <<>> /\ edges = <<>>

SpecWorkflows == InitWorkflows /\ [][NextWorkflows]_vars

-----------------------------------------------------------------------------
(* The editor page: executeAgent reading the execute-agent event stream     *)

\* the text on the wire is a sequence of characters; the events of one
\* execution are numbered 1 .. count and the last one carries done: true
Digits == <<"1", "2", "3", "4", "5", "6", "7", "8", "9">>
DataPrefix == <<"d", "a", "t", "a", ":", " ">>
Newline == "\n"

\* JSON.stringify of the event: an object, never holding a raw line break
EventJson(n, done) ==
  <<"{", Digits[n]>> \o (IF done THEN <<"d">> ELSE <<>>) \o <<"}">>

\* encoder.encode(`data: ${JSON.stringify(...)}\n\n`)
Frame(n, done) == DataPrefix \o EventJson(n, done) \o <<Newline, Newline>>

\* everything the route enqueues for an execution of count events
RECURSIVE Wire(_, _)
Wire(n, count) ==
  IF n > count THEN <<>>
  ELSE Frame(n, n = count) \o Wire(n + 1, count)

Emitted(count) == [n \in 1 .. count |-> n]

\* chunk.split('\n')
RECURSIVE Split(_, _)
Split(chunk, line) ==
  IF chunk = <<>> THEN <<line>>
  ELSE IF Head(chunk) = Newline
       THEN <<line>> \o Split(Tail(chunk), <<>>)
       ELSE Split(Tail(chunk), Append(line, Head(chunk)))

\* line.startsWith('data: ')
StartsWithData(line) ==
  Len(line) >= Len(DataPrefix)
  /\ SubSeq(line, 1, Len(DataPrefix)) = DataPrefix

\* line.slice(6)
Slice6(line) == SubSeq(line, Len(DataPrefix) + 1, Len(line))

\* JSON.parse(text): the event of a complete object, a SyntaxError for
\* anything else
JsonParse(text) ==
  IF /\ Len(text) \in {3, 4}
     /\ text[1] = "{"
     /\ text[Len(text)] = "}"
     /\ \E n \in DOMAIN Digits : Digits[n] = text[2]
     /\ Len(text) = 4 => text[3] = "d"
  THEN [ok |-> TRUE,
        n |-> CHOOSE n \in DOMAIN Digits : Digits[n] = text[2],
        done |-> Len(text) = 4]
  ELSE [ok |-> FALSE, n |-> 0, done |-> FALSE]

\* for (const line of lines): the events handled, isExecuting, and whether
\* JSON.parse threw, which leaves the loop
RECURSIVE ForLines(_, _)
ForLines(lines, acc) ==
  IF lines = <<>> THEN acc
  ELSE IF ~StartsWithData(Head(lines)) THEN ForLines(Tail(lines), acc)
  ELSE LET data == JsonParse(Slice6(Head(lines)))
       IN IF ~data.ok THEN [acc EXCEPT !.threw = TRUE]
          ELSE ForLines(Tail(lines),
                 [acc EXCEPT !.processed = Append(@, data.n),
                             !.isExecuting = IF data.done THEN FALSE ELSE @])

\* the page is shown; ready: executionInput is not blank and the canvas has
\* nodes
MountPage ==
  /\ client.pc = "unmounted"
  /\ \E ready \in BOOLEAN :
       client' = [pc |-> "idle", ready |-> ready, isExecuting |-> FALSE,
                  count |-> 0, wire |-> <<>>, processed |-> <<>>,
                  error |-> "none"]
  /\ UNCHANGED <<engineVars, generated, canvas, store>>

\* executeAgent up to the fetch: returns at once when the input is blank,
\* the canvas is empty or isExecuting is set
ExecuteAgent ==
  /\ client.pc \in {"idle", "returned", "failed"}
  /\ IF ~client.ready \/ client.isExecuting
     THEN client' = client
     ELSE client' = [client EXCEPT !.pc = "fetching", !.isExecuting = TRUE,
                                   !.count = 0, !.wire = <<>>,
                                   !.processed = <<>>, !.error = "none"]
  /\ UNCHANGED <<engineVars, generated, canvas, store>>

\* fetch rejects, or the response is not ok or has no body: the catch
FetchFails ==
  /\ client.pc = "fetching"
  /\ client' = [client EXCEPT !.pc = "failed", !.isExecuting = FALSE,
                              !.error = "fetch"]
  /\ UNCHANGED <<engineVars, generated, canvas, store>>

\* the response is ok: the route streams the events of the execution
FetchResponds ==
  /\ client.pc = "fetching"
  /\ \E count \in 1 .. MaxEvents :
       client' = [client EXCEPT !.pc = "reading", !.count = count,
                                !.wire = Wire(1, count)]
  /\ UNCHANGED <<engineVars, generated, canvas, store>>

\* reader.read() returns the next chunk, of any length the transport chose,
\* and the chunk is handled line by line
ReadChunk ==
  /\ client.pc = "reading"
  /\ \E size \in 1 .. Len(client.wire) :
       LET chunk == SubSeq(client.wire, 1, size)
           after == ForLines(Split(chunk, <<>>),
                             [processed |-> client.processed,
                              isExecuting |-> client.isExecuting,
                              threw |-> FALSE])
       IN client' = [client EXCEPT
            !.wire = SubSeq(@, size + 1, Len(@)),
            !.processed = after.processed,
            !.isExecuting = IF after.threw THEN FALSE ELSE after.isExecuting,
            !.pc = IF after.threw THEN "failed" ELSE @,
            !.error = IF after.threw THEN "parse" ELSE @]
  /\ UNCHANGED <<engineVars, generated, canvas, store>>

\* reader.read() rejects: the catch
ReadFails ==
  /\ client.pc = "reading"
  /\ client' = [client EXCEPT !.pc = "failed", !.isExecuting = FALSE,
                              !.error = "read"]
  /\ UNCHANGED <<engineVars, generated, canvas, store>>

\* reader.read() reports done: break, and executeAgent returns
ReadDone ==
  /\ client.pc = "reading"
  /\ client.wire = <<>>
  /\ client' = [client EXCEPT !.pc = "returned"]
  /\ UNCHANGED <<engineVars, generated, canvas, store>>

NextClient ==
  \/ MountPage
  \/ ExecuteAgent
  \/ FetchFails
  \/ FetchResponds
  \/ ReadChunk
  \/ ReadFails
  \/ ReadDone

InitClient == Init /\ nodes = <<>> /\ edges = <<>>

SpecClient == InitClient /\ [][NextClient]_vars /\ WF_vars(NextClient)

-----------------------------------------------------------------------------
(* Properties *)

Steps == state.steps
StepIndices == DOMAIN state.steps
Terminated == pc \in {"resolved", "rejected", "closed"}

\* the nodes of the graph that no edge targets
EntryNodes == { n \in Range(nodes) : ~HasIncoming(edges, n) }
HasOutgoing(n) == \E i \in DOMAIN edges : edges[i].source = n
RunningSteps == { i \in StepIndices : Steps[i].status = "running" }

\* C1: when exactly one node has no incoming edge, the run creates its first
\* Step for that node, with the user input as the Step's input.
C1_FirstStepIsEntryNode ==
  (Cardinality(EntryNodes) = 1 /\ pc \notin {"idle", "findStart"}) =>
    /\ Steps # <<>>
    /\ Steps[1].nodeId \in EntryNodes
    /\ Steps[1].input = userInput

C1_Witness ==
  /\ Cardinality(EntryNodes) = 1
  /\ Len(nodes) = 3
  /\ Steps # <<>>
  /\ Steps[1].nodeId = 3
  /\ Steps[1].input = userInput

\* C2: once the Step of a node without outgoing edges has completed, it is
\* the last Step, the run cannot fail any more, and the resolved run has
\* status completed and that Step's output as finalOutput; a run whose entry
\* node has no outgoing edge ends with exactly one Step.
C2_TerminalNodeEndsRun ==
  /\ \A i \in StepIndices :
       (Steps[i].status = "completed" /\ ~HasOutgoing(Steps[i].nodeId)) =>
         /\ i = Len(Steps)
         /\ pc \in {"route", "return", "resolved", "closed"}
         /\ pc \in {"resolved", "closed"} =>
              /\ state.status = "completed"
              /\ state.finalOutput = Steps[i].output
  /\ (Terminated /\ Steps # <<>> /\ ~HasOutgoing(Steps[1].nodeId)) =>
       Len(Steps) = 1

C2_Witness ==
  /\ pc = "resolved"
  /\ Len(Steps) = 3
  /\ ~HasOutgoing(Steps[3].nodeId)
  /\ state.status = "completed"
  /\ state.finalOutput = Steps[3].output
  /\ Steps[3].output # Steps[3].input

\* the name and arguments of each entry of a tool-call list
Calls(log) ==
  [k \in DOMAIN log |-> [name |-> log[k].name,
                         arguments |-> log[k].arguments]]

\* C3: every tool call the model requested within a Step, whether its tool
\* succeeded, failed or was unregistered, has exactly one entry in the
\* completed Step's toolCalls, in request order.
C3_EveryRequestLogged ==
  \A i \in StepIndices :
    Steps[i].status = "completed" =>
      /\ Steps[i].toolCalls # None
      /\ Calls(Steps[i].toolCalls[1]) = Calls(requested[i])

\* C4: when the gateway call of the in-flight Step throws, no further Step
\* is created, and the rejected run has that Step in status error and the
\* ExecutionState in status error with the thrown message as error.
C4_AfterGatewayThrow ==
  thrown \in GatewayErrors =>
    /\ pc \in {"catchNode", "catchWorkflow", "rejected", "closed"}
    /\ pc # "catchNode" => Last(Steps).status = "error"
    /\ pc \in {"rejected", "closed"} =>
         /\ state.status = "error"
         /\ state.error = thrown.message
         /\ Last(Steps).error = thrown.message

C4_NoStepAfterThrow ==
  thrown \in GatewayErrors => Len(state'.steps) = Len(state.steps)

C4_GatewayFailureEndsRun ==
  [](C4_AfterGatewayThrow) /\ [][C4_NoStepAfterThrow]_vars

C4_Witness ==
  /\ thrown \in GatewayErrors
  /\ pc = "rejected"
  /\ Len(Steps) = 2
  /\ requested[2] # <<>>
  /\ Len(nodes) = 3
  /\ HasOutgoing(Steps[2].nodeId)
  /\ state.status = "error"

\* C5: every Step before the last one is completed, with its output and no
\* error, also after a later Step failed.
C5_EarlierStepsStayCompleted ==
  \A i \in StepIndices :
    i < Len(Steps) =>
      /\ Steps[i].status = "completed"
      /\ Steps[i].output # Undefined
      /\ Steps[i].error = Undefined

\* C6: finalOutput is set if and only if the status is completed.
C6_FinalOutputIffCompleted ==
  (state.finalOutput # Undefined) <=> (state.status = "completed")

\* C7 as stated: while the status is running exactly one Step is running.
C7_ExactlyOneRunning ==
  state.status = "running" => Cardinality(RunningSteps) = 1

\* C7 as amended: while the status is running at most one Step is running,
\* and it is exactly one, the last Step, while a Step's interaction loop
\* (a gateway call or a tool call) is in flight.
C7_AtMostOneRunning ==
  state.status = "running" =>
    /\ Cardinality(RunningSteps) <= 1
    /\ pc \in {"gateway", "tool", "awaitTool"} => RunningSteps = {Len(Steps)}

C7_Witness ==
  /\ state.status = "running"
  /\ pc = "tool"
  /\ Len(Steps) = 3
  /\ RunningSteps = {3}

\* the in-flight-Step condition of C8 on one ExecutionState value
CurrentNodeIsInFlight(st) ==
  st.status = "running" =>
    /\ st.currentNode # NullNode
    /\ \E i \in DOMAIN st.steps :
         /\ st.steps[i].status = "running"
         /\ st.steps[i].nodeId = st.currentNode

\* C8 as stated: in every state and every published snapshot whose status
\* is running, currentNode is non-null and is the in-flight Step's node.
C8_CurrentNodeWhileRunning ==
  /\ CurrentNodeIsInFlight(state)
  /\ \A k \in DOMAIN published : CurrentNodeIsInFlight(published[k])

\* currentNode is null exactly until the first Step exists and then the
\* nodeId of the newest Step
CurrentNodeIsNewest(st) ==
  IF st.steps = <<>> THEN st.currentNode = NullNode
  ELSE /\ st.currentNode # NullNode
       /\ st.currentNode = Last(st.steps).nodeId

\* C8 as amended: in every state and every published snapshot, currentNode
\* is null until the first Step is created and from then on the nodeId of
\* the most recently created Step, which is the in-flight Step whenever a
\* Step is running.
C8_CurrentNodeIsNewestStep ==
  /\ CurrentNodeIsNewest(state)
  /\ \A k \in DOMAIN published : CurrentNodeIsNewest(published[k])
  /\ \A i \in RunningSteps : Steps[i].nodeId = state.currentNode

C8_Witness ==
  /\ state.status = "running"
  /\ Len(Steps) = 3
  /\ RunningSteps = {3}
  /\ state.currentNode = Steps[3].nodeId
  /\ state.currentNode # Steps[2].nodeId
  /\ Len(published) >= 6

\* C9: across every transition the steps list keeps its Steps, by id and
\* nodeId, at their positions and grows by at most one Step; it grows
\* exactly when an executeNode frame is entered, and the appended Step is
\* the Step of the node whose prompt was built.
C9_Step ==
  /\ Len(state'.steps) \in {Len(state.steps), Len(state.steps) + 1}
  /\ \A i \in DOMAIN state.steps :
       /\ state'.steps[i].id = state.steps[i].id
       /\ state'.steps[i].nodeId = state.steps[i].nodeId
  /\ (Len(state'.steps) = Len(state.steps) + 1) <=>
       (Len(stack') = Len(stack) + 1)
  /\ (Len(stack') = Len(stack) + 1) =>
       /\ Last(stack') = Len(state'.steps)
       /\ messages'[2].content.node = Last(state'.steps).nodeId
       /\ Last(state'.steps).status = "running"

C9_StepsAppendOnly == [][C9_Step]_vars

C9_Witness ==
  /\ Len(Steps) = 3
  /\ Steps[1].nodeId # Steps[2].nodeId
  /\ Steps[2].nodeId # Steps[3].nodeId
  /\ Steps[1].status = "completed"
  /\ pc = "gateway"

\* every node of the graph is the target of some edge
NoEntryNode == \A n \in Range(nodes) : HasIncoming(edges, n)

\* C10: when every node has an incoming edge (the empty graph included), no
\* Step is ever created or published, the run never resolves, and it is
\* rejected with status error and the no-starting-node message.
C10_NoEntryNodeFails ==
  NoEntryNode =>
    /\ Steps = <<>>
    /\ \A k \in DOMAIN published : published[k].steps = <<>>
    /\ pc \in {"idle", "findStart", "catchWorkflow", "rejected", "closed"}
    /\ pc \in {"catchWorkflow", "rejected", "closed"} =>
         thrown = [isError |-> TRUE, message |-> NoStartMessage]
    /\ pc \in {"rejected", "closed"} =>
         /\ state.status = "error"
         /\ state.error = NoStartMessage

C10_Witness ==
  /\ NoEntryNode
  /\ Len(nodes) = 2
  /\ pc = "rejected"
  /\ state.status = "error"
  /\ state.error = NoStartMessage

\* C11: the status only moves initializing -> running -> completed or
\* error, and once it is completed or error no operation, another
\* executeWorkflow call included, changes status, steps, finalOutput or
\* error.
C11_StatusMoves ==
  \/ state'.status = state.status
  \/ <<state.status, state'.status>> \in
       { <<"initializing", "running">>, <<"running", "completed">>,
         <<"running", "error">> }

C11_Frozen ==
  state.status \in {"completed", "error"} =>
    /\ state'.status = state.status
    /\ state'.steps = state.steps
    /\ state'.finalOutput = state.finalOutput
    /\ state'.error = state.error

C11_TerminalStatusIsFinal == [][C11_StatusMoves /\ C11_Frozen]_vars

\* C12: every transition of the run (a change of the status or of a Step)
\* is made together with exactly one onUpdate call that hands over the
\* state after the transition, so the newest snapshot always shows the
\* current status and steps and, while a gateway or tool call is in flight,
\* the whole current state.
C12_Step ==
  (state'.status # state.status \/ state'.steps # state.steps) =>
    published' = Append(published, state')

C12_NewestSnapshotIsCurrent ==
  /\ published = <<>> => state = InitialState
  /\ published # <<>> =>
       /\ Last(published).status = state.status
       /\ Last(published).steps = state.steps
  /\ pc \in {"gateway", "tool", "awaitTool"} => Last(published) = state

C12_EveryTransitionPublished ==
  [](C12_NewestSnapshotIsCurrent) /\ [][C12_Step]_vars

C12_Witness ==
  /\ pc = "rejected"
  /\ Len(Steps) = 2
  /\ Steps[1].status = "error"
  /\ Len(published) = 7
  /\ published[3].steps[1].status = "completed"
  /\ Last(published) = state

DoneIndices == { k \in DOMAIN events : IsDone(events[k]) }

\* C13: the stream of a run carries at most one event with done = true, no
\* event follows it, and once the route has closed the stream, after a
\* completed run as after a failed one, exactly one such event is there
\* and it is the last event.
C13_OneDoneEventLast ==
  /\ DoneIndices \subseteq {Len(events)}
  /\ DoneIndices # {} <=> pc = "closed"
  /\ closed <=> pc = "closed"
  /\ pc = "closed" => state.status \in {"completed", "error"}

C13_Witness ==
  /\ pc = "closed"
  /\ state.status = "error"
  /\ Len(Steps) = 2
  /\ Len(events) = 8
  /\ DoneIndices = {8}

\* C14: the final (done) event carries the terminal status of the run,
\* completed or error, and the run's steps.
C14_DoneEventCarriesStatus ==
  pc = "closed" =>
    /\ Field(Last(events), "status") = state.status
    /\ "steps" \in DOMAIN Last(events)
    /\ Len(Last(events).steps) = Len(Steps)

\* C15: the events enqueued on the stream are the serialised states of the
\* onUpdate calls, one per call and in call order, followed by the done
\* event once the stream is closed.
C15_EventsAreUpdatesInOrder ==
  /\ Len(events) = Len(published) + (IF pc = "closed" THEN 1 ELSE 0)
  /\ \A k \in DOMAIN published : events[k] = UpdateEvent(published[k])
  /\ pc = "closed" => IsDone(Last(events))

C15_Witness ==
  /\ pc = "closed"
  /\ state.status = "completed"
  /\ Len(published) = 8
  /\ Len(events) = 9
  /\ events[7] # events[8]

\* onUpdate?.(this.state) and getState() hand over the object this.state
\* itself: what the holder of the k-th delivered snapshot reads in it is
\* the current content of that object
DeliveredSnapshot(k) == state

\* C16: a snapshot delivered to onUpdate keeps the content it had when it
\* was delivered.
C16_DeliveredSnapshotsAreCopies ==
  \A k \in DOMAIN published : DeliveredSnapshot(k) = published[k]

\* the tool messages of the conversation answer the call ids in ids
Answered(ids) ==
  \A id \in ids :
    \E k \in DOMAIN messages :
      messages[k].role = "tool" /\ messages[k].tool_call_id = id

\* the ids of the calls requested in the current Step before the call c
EarlierCalls(c) ==
  { d.id : d \in { e \in Range(Last(requested)) : e.id < c.id } }

\* C17: at most one Step is running and at most one tool body is in flight
\* at any time, a tool body only while the loop waits for it.
C17_OneAtATime ==
  /\ Cardinality(RunningSteps) <= 1
  /\ Cardinality(inFlight) <= 1
  /\ inFlight # {} => pc = "awaitTool" /\ inFlight = {Head(pending).id}

\* C17: a Step is created only when no tool call of the previous Step is
\* pending or in flight and every earlier Step is completed; a tool call
\* starts only when no other is in flight and every earlier call of the
\* Step has its result message in the conversation.
C17_Step ==
  /\ Len(state'.steps) > Len(state.steps) =>
       /\ inFlight = {}
       /\ pending = <<>>
       /\ \A i \in DOMAIN state.steps : state.steps[i].status = "completed"
  /\ (inFlight' # inFlight /\ inFlight' # {}) =>
       /\ inFlight = {}
       /\ Answered(EarlierCalls(Head(pending)))

C17_StrictlySequential == [](C17_OneAtATime) /\ [][C17_Step]_vars

C17_Witness ==
  /\ pc = "awaitTool"
  /\ Len(Steps) = 2
  /\ Len(Last(requested)) = 2
  /\ inFlight = {Last(requested)[2].id}
  /\ Answered({Last(requested)[1].id})

\* the outgoing edges of the node of Step k, in edge-list order
EdgesOfStep(k) == NextEdges(edges, Steps[k].nodeId)

\* C18: every Step after the first is for the target of the first outgoing
\* edge, in edge-list order, of the node of the Step before it; and once a
\* Step with outgoing edges whose first target is a node has been
\* completed and routed, that next Step exists.
C18_FirstEdgeWins ==
  /\ \A k \in StepIndices :
       k < Len(Steps) =>
         /\ EdgesOfStep(k) # <<>>
         /\ Steps[k + 1].nodeId = EdgesOfStep(k)[1].target
  /\ \A k \in StepIndices :
       ( /\ k < MaxSteps
         /\ Terminated
         /\ thrown = NoError
         /\ EdgesOfStep(k) # <<>>
         /\ EdgesOfStep(k)[1].target \in Range(nodes) ) => k < Len(Steps)

C18_Witness ==
  /\ pc = "closed"
  /\ Len(Steps) = 2
  /\ Len(EdgesOfStep(1)) = 2
  /\ EdgesOfStep(1)[1].target # EdgesOfStep(1)[2].target
  /\ EdgesOfStep(1)[2].target \in Range(nodes)
  /\ Steps[2].nodeId = EdgesOfStep(1)[1].target
  /\ \A k \in StepIndices : Steps[k].nodeId # EdgesOfStep(1)[2].target

\* C19: the input of every Step after the first is the output of the Step
\* before it, and its node is the target of an edge out of that Step's
\* node.
C19_OutputFeedsNextInput ==
  \A k \in StepIndices :
    k < Len(Steps) =>
      /\ Steps[k].output # Undefined
      /\ Steps[k + 1].input = Steps[k].output
      /\ \E i \in DOMAIN edges :
           /\ edges[i].source = Steps[k].nodeId
           /\ edges[i].target = Steps[k + 1].nodeId

C19_Witness ==
  /\ Len(Steps) = 3
  /\ Steps[1].output = NoResponse
  /\ Steps[2].input = NoResponse
  /\ Steps[2].output = "answer"
  /\ Steps[3].input = "answer"

\* the graph is the linear chain nodes[c[1]] -> ... -> nodes[c[n]]: the
\* edges are exactly the links of the chain, one edge each
IsChainOrder(c) ==
  /\ Len(c) = Len(nodes)
  /\ Range(c) = Range(nodes)
  /\ Len(edges) = Len(nodes) - 1
  /\ \A i \in 1 .. (Len(c) - 1) :
       \E j \in DOMAIN edges :
         edges[j] = [source |-> c[i], target |-> c[i + 1]]

ChainOrders ==
  { c \in [1 .. Len(nodes) -> Range(nodes)] : nodes # <<>> /\ IsChainOrder(c) }

\* C20: on a linear chain of n nodes a run in which nothing is thrown is
\* never rejected, creates Steps only along the chain, and ends completed
\* with exactly n Steps, all completed, whose nodes are the chain in order.
C20_LinearChainRunsInOrder ==
  \A c \in ChainOrders :
    /\ \A k \in StepIndices : k <= Len(c) /\ Steps[k].nodeId = c[k]
    /\ thrown = NoError => pc \notin {"catchNode", "catchWorkflow", "rejected"}
    /\ (Terminated /\ thrown = NoError) =>
         /\ Len(Steps) = Len(c)
         /\ \A k \in StepIndices : Steps[k].status = "completed"
         /\ state.status = "completed"

C20_Witness ==
  /\ pc = "closed"
  /\ [i \in 1 .. 3 |-> 4 - i] \in ChainOrders
  /\ Len(Steps) = 3
  /\ state.status = "completed"
  /\ Steps[1].nodeId = 3
  /\ Steps[3].nodeId = 1

\* the error payload the inner catch feeds back for a call
IsErrorResult(m, call) ==
  /\ m.role = "tool"
  /\ m.tool_call_id = call.id
  /\ "error" \in DOMAIN m.content

\* C21: when executeTool throws (unregistered tool, or a tool body that
\* throws), nothing is thrown out of the loop and the Step is not failed:
\* an error result for that call is appended to the conversation and the
\* loop goes on to the next call of the batch or to the next gateway call.
C21_Step ==
  ( /\ pc = "awaitTool"
    /\ executeToolThrows(Head(pending).name, Head(pending).arguments) ) =>
      /\ thrown' = NoError
      /\ state' = state
      /\ Len(messages') = Len(messages) + 1
      /\ IsErrorResult(Last(messages'), Head(pending))
      /\ pc' = IF Len(pending) = 1 THEN "gateway" ELSE "tool"

\* C21: a run only ever fails for a missing start node, a gateway failure
\* or an unparseable arguments payload.
C21_FailureCauses ==
  /\ thrown.isError =>
       thrown \in GatewayErrors \cup
                  {ParseError, [isError |-> TRUE, message |-> NoStartMessage]}
  /\ \A i \in StepIndices :
       Steps[i].status = "error" => thrown \in GatewayErrors \cup {ParseError}

C21_ToolFailureNotFatal == [](C21_FailureCauses) /\ [][C21_Step]_vars

C21_Witness ==
  /\ pc = "route"
  /\ Last(Steps).status = "completed"
  /\ Len(Last(requested)) = 2
  /\ ~ToolRegistered(Last(requested)[1].name)
  /\ ToolBodyThrows(Last(requested)[2].name, Last(requested)[2].arguments)
  /\ IsErrorResult(messages[4], Last(requested)[1])
  /\ IsErrorResult(messages[5], Last(requested)[2])

AssistantIndices ==
  { a \in DOMAIN messages : messages[a].role = "assistant" }

\* the calls of the assistant message at index a are answered, one tool
\* message each, in request order, right after it
AnsweredInOrder(a) ==
  LET calls == messages[a].tool_calls IN
    /\ Len(messages) >= a + Len(calls)
    /\ \A j \in DOMAIN calls :
         /\ messages[a + j].role = "tool"
         /\ messages[a + j].tool_call_id = calls[j].id
    /\ \A k \in DOMAIN messages :
         (k > a + Len(calls) /\ messages[k].role = "tool") =>
           \A j \in DOMAIN calls : messages[k].tool_call_id # calls[j].id
    /\ Len(messages) > a + Len(calls) =>
         messages[a + Len(calls) + 1].role = "assistant"

\* C22: whenever a follow-up gateway call is made or has been made after an
\* assistant message with tool calls, each of its call ids has exactly one
\* tool message, appended after it in request order, whether the tool
\* succeeded or failed.
C22_ConversationWellFormed ==
  \A a \in AssistantIndices :
    (pc = "gateway" \/ \E b \in AssistantIndices : b > a) =>
      AnsweredInOrder(a)

C22_Witness ==
  /\ pc = "gateway"
  /\ Len(messages) = 5
  /\ Len(messages[3].tool_calls) = 2
  /\ IsErrorResult(messages[4], messages[3].tool_calls[1])
  /\ messages[5].tool_call_id = messages[3].tool_calls[2].id
  /\ ~IsErrorResult(messages[5], messages[3].tool_calls[2])

\* every tool call the model requested in this run
AllRequested == UNION { Range(requested[i]) : i \in DOMAIN requested }

\* the tool bodies run for the call c
BodiesOf(c) == { k \in DOMAIN invoked : invoked[k].call = c.id }

\* the loop has come to the call c (it is past it, or awaits its tool)
Started(c) == c \notin Range(pending) \/ c.id \in inFlight

\* C23 as stated: once the loop is past a requested call, exactly one tool
\* body has been run for it.
C23_ExactlyOneBodyPerCall ==
  \A c \in AllRequested :
    c \notin Range(pending) => Cardinality(BodiesOf(c)) = 1

\* C23 amended: at most one tool body is run for a requested call, the body
\* of the tool it names; exactly one when that tool is registered and the
\* loop has come to the call, and none otherwise.
C23_OneBodyPerRegisteredCall ==
  /\ \A c \in AllRequested :
       /\ Cardinality(BodiesOf(c)) <= 1
       /\ \A k \in BodiesOf(c) : invoked[k].tool = c.name
       /\ Cardinality(BodiesOf(c)) = 1 <=>
            (ToolRegistered(c.name) /\ Started(c))
  /\ \A k \in DOMAIN invoked : \E c \in AllRequested : k \in BodiesOf(c)

C23_Witness ==
  /\ pc = "closed"
  /\ Len(invoked) = 1
  /\ \E c \in AllRequested : ~ToolRegistered(c.name) /\ BodiesOf(c) = {}
  /\ \E c \in AllRequested :
       ToolRegistered(c.name) /\ Cardinality(BodiesOf(c)) = 1

\* C24: no tool body is run with an arguments payload that is unparseable
\* or does not conform to the tool's declared schema.
C24_MalformedNeverRuns ==
  \A k \in DOMAIN invoked : invoked[k].arguments = "valid"

\* C25: a completed Step has a defined, non-empty output; an answer without
\* text completes the Step with the sentinel string.
C25_CompletedStepHasOutput ==
  \A i \in StepIndices :
    Steps[i].status = "completed" =>
      /\ Steps[i].output # Undefined
      /\ Steps[i].output # ""

C25_Witness ==
  /\ pc = "closed"
  /\ state.status = "completed"
  /\ Len(Steps) = 2
  /\ Steps[1].status = "completed"
  /\ Steps[1].output = NoResponse
  /\ Steps[2].input = NoResponse

\* C28: once a gateway call has thrown, the run is in its catch handlers or
\* settled, no tool call is in flight, and the settled run has status error.
C28_AfterThrow ==
  thrown \in GatewayErrors =>
    /\ pc \in {"catchNode", "catchWorkflow", "rejected", "closed"}
    /\ inFlight = {}
    /\ pc \in {"rejected", "closed"} => state.status = "error"

\* C28: after a gateway call has thrown, the conversation is never sent
\* again and no tool call is requested, started or run.
C28_Step ==
  thrown \in GatewayErrors =>
    /\ thrown' = thrown
    /\ messages' = messages
    /\ requested' = requested
    /\ invoked' = invoked
    /\ inFlight' = inFlight

C28_GatewayFailureNotRetried == [](C28_AfterThrow) /\ [][C28_Step]_vars

C28_Witness ==
  /\ pc = "closed"
  /\ thrown \in GatewayErrors
  /\ state.status = "error"
  /\ Len(invoked) = 2
  /\ Len(messages) = 5
  /\ Len(Steps) = 1

\* C29: a resolved executeWorkflow call returns a state with status
\* completed; a rejected one leaves getState() with status error and the
\* thrown error's message as error.
C29_Settled ==
  /\ pc = "resolved" => (getState.status = "completed" /\ thrown = NoError)
  /\ pc = "rejected" =>
       /\ thrown.isError
       /\ getState.status = "error"
       /\ getState.error = thrown.message

\* C29: the error that is thrown is the one the call rejects with.
C29_Step == thrown.isError => thrown' = thrown

C29_ResolvesCompletedRejectsError == [](C29_Settled) /\ [][C29_Step]_vars

C29_Witness ==
  /\ pc = "rejected"
  /\ thrown = ParseError
  /\ Len(Steps) = 2
  /\ Steps[1].status = "error"
  /\ getState.status = "error"
  /\ getState.error = ParseError.message

\* C26: the interaction loop of a node, once entered, eventually returns an
\* output (the Step is routed) or throws (the Step's catch runs).
C26_LoopResolves == (pc = "gateway") ~> (pc \in {"route", "catchNode"})

\* C27: provided every interaction loop resolves, a started run eventually
\* has status completed or error.
C27_RunEnds ==
  C26_LoopResolves =>
    ((state.status = "running") ~> (state.status \in {"completed", "error"}))

\* C30: at every instant of every interleaving, the ExecutionState of each
\* request's run is the state its own transitions alone produce, and its
\* stream carries exactly the events of its own run.
C30_RunsIsolated ==
  \A r \in DOMAIN server.requests :
    /\ Orch(r) = Req(r).mine
    /\ Req(r).events = Req(r).sent

C30_Witness ==
  /\ Len(server.requests) = 2
  /\ Req(1).pc = "gateway"
  /\ Len(Orch(1).steps) = 1
  /\ Orch(1).steps[1].input = "hi"
  /\ Req(2).pc = "closed"
  /\ Len(Orch(2).steps) = 2
  /\ Orch(2).status = "completed"
  /\ Orch(2).steps[1].input = "hello"
  /\ Len(Req(1).events) = 2
  /\ Len(Req(2).events) = 7

\* C35: each Step has a defined output exactly when its status is
\* completed and a defined error exactly when its status is error (so no
\* Step carries both).
C35_OutputIffCompletedErrorIffError ==
  \A i \in StepIndices :
    /\ Steps[i].output # Undefined <=> Steps[i].status = "completed"
    /\ Steps[i].error # Undefined <=> Steps[i].status = "error"

\* C36: a closed stream belongs to a run that has ended, with exactly one
\* done event, the last one enqueued.
C36_ClosedAfterDone ==
  closed =>
    /\ pc = "closed"
    /\ events # <<>>
    /\ DoneIndices = {Len(events)}

\* C36: close() is called when the stream is open and the done event is
\* being enqueued; after it nothing is enqueued and the stream stays
\* closed, the start function having ended.
C36_Step ==
  /\ (~closed /\ closed') =>
       /\ pc \in {"resolved", "rejected"}
       /\ Len(events') = Len(events) + 1
       /\ IsDone(Last(events'))
  /\ closed => (closed' /\ events' = events /\ pc' = pc)

C36_ClosedOnceNothingAfter == [](C36_ClosedAfterDone) /\ [][C36_Step]_vars

C36_Witness ==
  /\ closed
  /\ thrown \in GatewayErrors
  /\ Len(Steps) = 2
  /\ Len(events) = Len(published) + 1
  /\ IsDone(Last(events))
  /\ ~IsDone(events[Len(events) - 1])

\* the generate-workflow request was answered with a workflow
Generated == generated.pc = "done" /\ generated.status = 200

\* C31: every edge of a successful generate-workflow response has both its
\* source and its target among the ids of the returned nodes.
C31_EdgesReferToReturnedNodes ==
  Generated =>
    \A i \in DOMAIN generated.edges :
      /\ generated.edges[i].source \in Range(generated.nodes)
      /\ generated.edges[i].target \in Range(generated.nodes)

C31_Witness ==
  /\ Generated
  /\ Len(generated.workflow.edges) = 2
  /\ Len(generated.edges) = 1
  /\ generated.workflow.nodes[1] = 0
  /\ generated.edges[1].target = DefaultNodeId(0)
  /\ generated.workflow.edges[1].source \in Range(generated.nodes)
  /\ generated.workflow.edges[1].target \notin Range(generated.nodes)

\* no edge the model gave has both endpoints among the returned node ids
NoEdgeSurvives ==
  \A i \in DOMAIN generated.workflow.edges :
    \/ generated.workflow.edges[i].source \notin Range(generated.nodes)
    \/ generated.workflow.edges[i].target \notin Range(generated.nodes)

\* C32: when more than one node is returned and no edge survives, the
\* response has the n - 1 edges node[i] -> node[i + 1], and exactly one of
\* its nodes has no incoming edge.
C32_FallbackIsChain ==
  (Generated /\ Len(generated.nodes) > 1 /\ NoEdgeSurvives) =>
    /\ Len(generated.edges) = Len(generated.nodes) - 1
    /\ \A i \in DOMAIN generated.edges :
         generated.edges[i] = [source |-> generated.nodes[i],
                               target |-> generated.nodes[i + 1]]
    /\ Cardinality({ i \in DOMAIN generated.nodes :
                       ~HasIncoming(generated.edges, generated.nodes[i]) }) = 1

\* the node a handleDeleteNode step removes from the canvas
DeletedNode ==
  CHOOSE n \in Range(canvas.nodes) : n \notin Range(canvas'.nodes)

\* C33: after handleDeleteNode(n) no edge has n as source or target, every
\* edge endpoint is a node of the canvas, and when n had incoming and
\* outgoing edges every predecessor of n has an edge to every successor.
C33_Step ==
  (canvas.pc = "ready" /\ canvas'.nodes # canvas.nodes) =>
    LET n == DeletedNode
        before == canvas.edges
        after == canvas'.edges
    IN /\ \A i \in DOMAIN after : after[i].source # n /\ after[i].target # n
       /\ \A i \in DOMAIN after :
            /\ after[i].source \in Range(canvas'.nodes)
            /\ after[i].target \in Range(canvas'.nodes)
       /\ \A i, j \in DOMAIN before :
            (before[i].target = n /\ before[j].source = n) =>
              \E k \in DOMAIN after :
                /\ after[k].source = before[i].source
                /\ after[k].target = before[j].target

C33_DeleteLeavesNoDanglingEdge == [][C33_Step]_vars

\* C34: a POST with an id replaces the row with that id and creates no
\* row; a POST without an id adds exactly one row and answers with its new
\* id; a POST without name, nodes or edges answers 400 and changes no row.
C34_Step ==
  (/\ store.pc = "open"
   /\ store' # store
   /\ store'.request.method = "POST") =>
    LET body == store'.request
        old == store.rows
        new == store'.rows
    IN IF MissingFields(body)
       THEN store'.response.status = 400 /\ new = old
       ELSE IF body.id # 0
       THEN /\ DOMAIN new = DOMAIN old
            /\ \A i \in DOMAIN old :
                 new[i] = IF i = body.id THEN WorkflowRow(body) ELSE old[i]
       ELSE \E id \in WorkflowIds :
              /\ id \notin DOMAIN old
              /\ DOMAIN new = DOMAIN old \cup {id}
              /\ new[id] = WorkflowRow(body)
              /\ store'.response.id = id
              /\ \A i \in DOMAIN old : new[i] = old[i]

C34_PostUpdatesInsertsOrRejects == [][C34_Step]_vars

\* a stored workflow was updated while another workflow is stored
C34_Witness ==
  /\ store.pc = "open"
  /\ store.request.method = "POST"
  /\ store.response.message = "Workflow updated successfully"
  /\ Cardinality(DOMAIN store.rows) = 2
  /\ store.request.id \in DOMAIN store.rows
  /\ store.rows[store.request.id] = WorkflowRow(store.request)
  /\ \E i \in DOMAIN store.rows :
       store.rows[i] # WorkflowRow(store.request)

IsPrefix(s, t) == Len(s) <= Len(t) /\ SubSeq(t, 1, Len(s)) = s

\* C37: however the stream is cut into chunks, the page handles the emitted
\* events once each and in order: what it has handled is always a prefix of
\* what was emitted, cutting never makes the handling fail, and when the
\* stream has ended every emitted event has been handled.
C37_EveryEventOnceInOrder ==
  client.pc \in {"reading", "returned", "failed"} =>
    /\ IsPrefix(client.processed, Emitted(client.count))
    /\ client.error # "parse"
    /\ client.pc = "returned" => client.processed = Emitted(client.count)

\* C38: a request is only sent while isExecuting is false, and an execution
\* that has ended, by the end of the stream or by a failure, has set
\* isExecuting back to false.
C38_RequestStep ==
  (client.pc # "fetching" /\ client'.pc = "fetching") => ~client.isExecuting

C38_Ended ==
  client.pc \in {"returned", "failed"} => ~client.isExecuting

C38_OneExecutionInFlight == [](C38_Ended) /\ [][C38_RequestStep]_vars

====
